---- MODULE Spec2Model ----
(***************************************************************************)
(* Shortest-distance search over a road network (routes.py):              *)
(* read_distances builds the adjacency dict from the lines of the map     *)
(* file, main validates the two labels, dfs fills the distance dict by    *)
(* recursive depth-first search, and main reports the destination's       *)
(* entry.  The recursion of dfs is modelled by an explicit call stack;    *)
(* one frame of the stack is one activation of dfs.                       *)
(***************************************************************************)
EXTENDS Integers, Sequences, FiniteSets, TLC

(***************************************************************************)
(* Bounds of the model.                                                    *)
(***************************************************************************)
\* longest map file, in lines
MaxLines == 3
\* significand width of the floating-point costs (53 in CPython's float)
MantBits == 3
\* deepest call stack of dfs before the interpreter raises RecursionError
RecursionLimit == 6

\* the place names the map file is written over
Places == {"A", "B", "C"}
\* a label that no line of the map file carries
Nowhere == "Z"
\* labels that can be given on the command line
Labels == Places \cup {Nowhere}

RECURSIVE Pow2(_)
Pow2(n) == IF n = 0 THEN 1 ELSE 2 * Pow2(n - 1)

\* the least cost that a sum of MantBits significant bits cannot tell from +1
BigCost == Pow2(MantBits)

(***************************************************************************)
(* Floating-point arithmetic.  Costs are floats (float(fields[2])) and    *)
(* dfs accumulates them with +, which rounds the exact sum to the nearest *)
(* representable value, ties to even.  Values are counted in units of the *)
(* smallest cost of the file.                                              *)
(***************************************************************************)
RECURSIVE Ulp(_)
Ulp(n) == IF n < Pow2(MantBits) THEN 1 ELSE 2 * Ulp(n \div 2)

RoundFloat(n) ==
    LET u == Ulp(n)
        q == n \div u
        r == n % u
    IN  IF 2 * r > u \/ (2 * r = u /\ q % 2 = 1) THEN (q + 1) * u ELSE q * u

FloatAdd(a, b) == RoundFloat(a + b)

(***************************************************************************)
(* Dicts are functions on the set of their keys.                           *)
(***************************************************************************)
EmptyDict == [k \in {} |-> 0]

Put(d, k, v) == [x \in (DOMAIN d) \cup {k} |-> IF x = k THEN v ELSE d[x]]

(***************************************************************************)
(* The lines of a map file: a comment, a blank line, or a record           *)
(* from,to,cost.                                                           *)
(***************************************************************************)
CommentLine == [kind |-> "comment", place_from |-> "", place_to |-> "", cost |-> 0]
BlankLine == [kind |-> "blank", place_from |-> "", place_to |-> "", cost |-> 0]
Record(f, t, c) == [kind |-> "record", place_from |-> f, place_to |-> t, cost |-> c]

RecordLines ==
    { Record("A", "B", 1), Record("B", "C", 1), Record("A", "C", 3),
      Record("A", "B", BigCost), Record("B", "C", 0), Record("C", "C", 1) }

Lines == RecordLines \cup {CommentLine, BlankLine}

RECURSIVE SeqsUpTo(_, _)
SeqsUpTo(S, n) ==
    IF n = 0 THEN {<< >>}
    ELSE LET shorter == SeqsUpTo(S, n - 1)
         IN  shorter \cup { Append(s, x) : s \in {t \in shorter : Len(t) = n - 1}, x \in S }

MapFiles == SeqsUpTo(Lines, MaxLines)

VARIABLES
    map_file,      \* args.map_file: the lines of the map file
    start_place,   \* args.from_place
    destination,   \* args.to_place
    pc,            \* where main is
    lineno,        \* lines of map_file consumed by the loop of read_distances
    roads,         \* connections in read_distances, roads in main and dfs
    created,       \* is distances bound (main, line 135)
    distances,     \* the distance dict
    stack,         \* the activations of dfs, outermost first
    printed,       \* which message main printed
    exit_status,   \* -1 while running, then the process's exit status
    run,           \* how many queries have been started on this network
    first_result   \* the distance dict the first query ended with

vars == << map_file, start_place, destination, pc, lineno, roads, created,
           distances, stack, printed, exit_status, run, first_result >>

Init ==
    /\ map_file \in MapFiles
    /\ start_place \in Labels
    /\ destination \in Labels
    /\ pc = "read"
    /\ lineno = 0
    /\ roads = EmptyDict
    /\ created = FALSE
    /\ distances = EmptyDict
    /\ stack = << >>
    /\ printed = "nothing"
    /\ exit_status = -1
    /\ run = 0
    /\ first_result = EmptyDict

(***************************************************************************)
(* read_distances                                                          *)
(***************************************************************************)
\* AddHop putting the new hop at the head of the list
AddHop_prepend(connections, from, to, cost) ==
    LET old == IF from \in DOMAIN connections THEN connections[from] ELSE << >>
    IN  Put(connections, from, << << to, cost >> >> \o old)

\* lines 48-50 and 51-53: create the key if absent, append the hop
AddHop(connections, from, to, cost) ==
    LET old == IF from \in DOMAIN connections THEN connections[from] ELSE << >>
    IN  Put(connections, from, Append(old, << to, cost >>))

\* AddRecord without lines 51-53
AddRecord_oneway(connections, line) ==
    Put(connections, line.place_from,
        Append(IF line.place_from \in DOMAIN connections
               THEN connections[line.place_from] ELSE << >>,
               << line.place_to, line.cost >>))

\* lines 44-53: one record adds a hop in each direction
AddRecord(connections, line) ==
    AddHop(AddHop(connections, line.place_from, line.place_to, line.cost),
           line.place_to, line.place_from, line.cost)

\* line 40
IsSkipped(line) == line.kind = "comment" \/ line.kind = "blank"

\* one turn of the loop of lines 38-53
ReadLine ==
    /\ pc = "read"
    /\ lineno < Len(map_file)
    /\ LET line == map_file[lineno + 1]
       IN  roads' = IF IsSkipped(line) THEN roads ELSE AddRecord(roads, line)
    /\ lineno' = lineno + 1
    /\ UNCHANGED << map_file, start_place, destination, pc, created, distances,
                    stack, printed, exit_status, run, first_result >>

\* line 54: the loop is over, main has its roads
ReturnConnections ==
    /\ pc = "read"
    /\ lineno = Len(map_file)
    /\ pc' = "check_start"
    /\ UNCHANGED << map_file, start_place, destination, lineno, roads, created,
                    distances, stack, printed, exit_status, run, first_result >>

(***************************************************************************)
(* main                                                                    *)
(***************************************************************************)
\* OnMap with the test left out
OnMap_always(label, network) == TRUE

\* lines 128 and 131: is the label a key of roads
OnMap(label, network) == label \in DOMAIN network

\* lines 128-130
CheckStart ==
    /\ pc = "check_start"
    /\ IF OnMap(start_place, roads)
       THEN /\ pc' = "check_dest"
            /\ UNCHANGED << printed, exit_status >>
       ELSE /\ pc' = "exited"
            /\ printed' = "start_not_on_map"
            /\ exit_status' = 1
    /\ UNCHANGED << map_file, start_place, destination, lineno, roads, created,
                    distances, stack, run, first_result >>

\* lines 131-133
CheckDestination ==
    /\ pc = "check_dest"
    /\ IF OnMap(destination, roads)
       THEN /\ pc' = "call_dfs"
            /\ UNCHANGED << printed, exit_status >>
       ELSE /\ pc' = "exited"
            /\ printed' = "destination_not_on_map"
            /\ exit_status' = 1
    /\ UNCHANGED << map_file, start_place, destination, lineno, roads, created,
                    distances, stack, run, first_result >>

\* a fresh activation dfs(place, dist_so_far, roads, distances), before line 92
Activation(place, dist_so_far) ==
    [ place |-> place, dist_so_far |-> dist_so_far, at |-> "l92",
      hops |-> << >>, i |-> 0,
      first_visit |-> FALSE, same_path |-> FALSE, shorter |-> FALSE, calls |-> 0 ]

\* lines 135-137: a fresh distance dict, and the outermost call of dfs
CallDfs ==
    /\ pc = "call_dfs"
    /\ created' = TRUE
    /\ distances' = EmptyDict
    /\ stack' = << Activation(start_place, 0) >>
    /\ pc' = "dfs"
    /\ run' = 1
    /\ UNCHANGED << map_file, start_place, destination, lineno, roads, printed,
                    exit_status, first_result >>

\* InTable asking the roads instead of the distance dict
InTable_onMap(label, table) == label \in DOMAIN roads

\* line 139
InTable(label, table) == label \in DOMAIN table

\* lines 139-143
Report ==
    /\ pc = "report"
    /\ printed' = IF InTable(destination, distances) THEN "distance" ELSE "cant_get"
    /\ exit_status' = 0
    /\ pc' = "done"
    /\ UNCHANGED << map_file, start_place, destination, lineno, roads, created,
                    distances, stack, run, first_result >>

\* the same query asked again of the same roads: lines 135-137 once more
Requery ==
    /\ pc = "done"
    /\ run = 1
    /\ first_result' = [ distances |-> distances, printed |-> printed ]
    /\ distances' = EmptyDict
    /\ stack' = << Activation(start_place, 0) >>
    /\ pc' = "dfs"
    /\ run' = 2
    /\ printed' = "nothing"
    /\ exit_status' = -1
    /\ UNCHANGED << map_file, start_place, destination, lineno, roads, created >>

(***************************************************************************)
(* dfs: each action is a step of the innermost activation                  *)
(***************************************************************************)
Top == stack[Len(stack)]

SetTop(frame) == [stack EXCEPT ![Len(stack)] = frame]

\* an exception nobody catches: the traceback is printed, the status is 1
Uncaught(error) ==
    /\ pc' = error
    /\ printed' = "traceback"
    /\ exit_status' = 1
    /\ UNCHANGED << stack, distances >>

\* line 95
SamePath(dist_so_far, known) == known = dist_so_far

\* Shorter that never holds
Shorter_never(dist_so_far, known) == FALSE

\* Shorter with # for <
Shorter_differs(dist_so_far, known) == dist_so_far # known

\* Shorter with <= for <
Shorter_orEqual(dist_so_far, known) == dist_so_far <= known

\* line 100
Shorter(dist_so_far, known) == dist_so_far < known

\* lines 92-93
DfsFirstVisit ==
    /\ pc = "dfs"
    /\ Top.at = "l92"
    /\ IF Top.place \notin DOMAIN distances
       THEN /\ distances' = Put(distances, Top.place, Top.dist_so_far)
            /\ stack' = SetTop([Top EXCEPT !.at = "l95", !.first_visit = TRUE])
       ELSE /\ distances' = distances
            /\ stack' = SetTop([Top EXCEPT !.at = "l95"])
    /\ UNCHANGED << map_file, start_place, destination, pc, lineno, roads, created,
                    printed, exit_status, run, first_result >>

\* DfsSamePath taking the hops out of roads[place] instead of reading them
DfsSamePath_consuming ==
    /\ pc = "dfs"
    /\ Top.at = "l95"
    /\ IF SamePath(Top.dist_so_far, distances[Top.place])
       THEN IF Top.place \in DOMAIN roads
            THEN /\ stack' = SetTop([Top EXCEPT !.at = "l96", !.hops = roads[Top.place],
                                                !.i = 1, !.same_path = TRUE])
                 /\ roads' = [roads EXCEPT ![Top.place] = << >>]
                 /\ UNCHANGED << pc, printed, exit_status, distances >>
            ELSE Uncaught("KeyError") /\ UNCHANGED roads
       ELSE /\ stack' = SetTop([Top EXCEPT !.at = "l100"])
            /\ UNCHANGED << pc, printed, exit_status, distances, roads >>
    /\ UNCHANGED << map_file, start_place, destination, lineno, created,
                    run, first_result >>

\* lines 95-96: the test, and roads[place] for the loop
DfsSamePath ==
    /\ pc = "dfs"
    /\ Top.at = "l95"
    /\ IF SamePath(Top.dist_so_far, distances[Top.place])
       THEN IF Top.place \in DOMAIN roads
            THEN /\ stack' = SetTop([Top EXCEPT !.at = "l96", !.hops = roads[Top.place],
                                                !.i = 1, !.same_path = TRUE])
                 /\ UNCHANGED << pc, printed, exit_status, distances >>
            ELSE Uncaught("KeyError")
       ELSE /\ stack' = SetTop([Top EXCEPT !.at = "l100"])
            /\ UNCHANGED << pc, printed, exit_status, distances >>
    /\ UNCHANGED << map_file, start_place, destination, lineno, roads, created,
                    run, first_result >>

\* lines 96-98: the next hop of the loop and the recursive call, or the loop's end
DfsSamePathHop ==
    /\ pc = "dfs"
    /\ Top.at = "l96"
    /\ IF Top.i <= Len(Top.hops)
       THEN LET next_place == Top.hops[Top.i][1]
                next_dist == Top.hops[Top.i][2]
            IN  IF Len(stack) < RecursionLimit
                THEN /\ stack' = Append(SetTop([Top EXCEPT !.i = @ + 1, !.calls = @ + 1]),
                                        Activation(next_place,
                                                   FloatAdd(Top.dist_so_far, next_dist)))
                     /\ UNCHANGED << pc, printed, exit_status, distances >>
                ELSE Uncaught("RecursionError")
       ELSE /\ stack' = SetTop([Top EXCEPT !.at = "l100"])
            /\ UNCHANGED << pc, printed, exit_status, distances >>
    /\ UNCHANGED << map_file, start_place, destination, lineno, roads, created,
                    run, first_result >>

\* lines 100-102: the test, the lower entry, and roads[place] for the loop
DfsShorter ==
    /\ pc = "dfs"
    /\ Top.at = "l100"
    /\ IF Shorter(Top.dist_so_far, distances[Top.place])
       THEN IF Top.place \in DOMAIN roads
            THEN /\ distances' = Put(distances, Top.place, Top.dist_so_far)
                 /\ stack' = SetTop([Top EXCEPT !.at = "l102", !.hops = roads[Top.place],
                                                !.i = 1, !.shorter = TRUE])
                 /\ UNCHANGED << pc, printed, exit_status >>
            ELSE /\ pc' = "KeyError"
                 /\ printed' = "traceback"
                 /\ exit_status' = 1
                 /\ distances' = Put(distances, Top.place, Top.dist_so_far)
                 /\ UNCHANGED stack
       ELSE /\ stack' = SetTop([Top EXCEPT !.at = "l106"])
            /\ UNCHANGED << pc, printed, exit_status, distances >>
    /\ UNCHANGED << map_file, start_place, destination, lineno, roads, created,
                    run, first_result >>

\* lines 102-104: the next hop (which rebinds place) and the recursive call,
\* or the loop's end
DfsShorterHop ==
    /\ pc = "dfs"
    /\ Top.at = "l102"
    /\ IF Top.i <= Len(Top.hops)
       THEN LET place == Top.hops[Top.i][1]
                next_dist == Top.hops[Top.i][2]
            IN  IF Len(stack) < RecursionLimit
                THEN /\ stack' = Append(SetTop([Top EXCEPT !.place = place, !.i = @ + 1,
                                                           !.calls = @ + 1]),
                                        Activation(place,
                                                   FloatAdd(Top.dist_so_far, next_dist)))
                     /\ UNCHANGED << pc, printed, exit_status, distances >>
                ELSE Uncaught("RecursionError")
       ELSE /\ stack' = SetTop([Top EXCEPT !.at = "l106"])
            /\ UNCHANGED << pc, printed, exit_status, distances >>
    /\ UNCHANGED << map_file, start_place, destination, lineno, roads, created,
                    run, first_result >>

\* line 106: back in the caller, or in main after line 137
DfsReturn ==
    /\ pc = "dfs"
    /\ Top.at = "l106"
    /\ stack' = SubSeq(stack, 1, Len(stack) - 1)
    /\ pc' = IF Len(stack) = 1 THEN "report" ELSE "dfs"
    /\ UNCHANGED << map_file, start_place, destination, lineno, roads, created,
                    distances, printed, exit_status, run, first_result >>

Next ==
    \/ ReadLine
    \/ ReturnConnections
    \/ CheckStart
    \/ CheckDestination
    \/ CallDfs
    \/ DfsFirstVisit
    \/ DfsSamePath
    \/ DfsSamePathHop
    \/ DfsShorter
    \/ DfsShorterHop
    \/ DfsReturn
    \/ Report
    \/ Requery

Spec == Init /\ [][Next]_vars

(***************************************************************************)
(* What the map file says, read off its lines without read_distances.      *)
(***************************************************************************)
RecordIndexes == { n \in 1..Len(map_file) : map_file[n].kind = "record" }

\* the places some record of the first n lines names
Mentioned(n) ==
    { map_file[k].place_from : k \in { j \in RecordIndexes : j <= n } }
        \cup { map_file[k].place_to : k \in { j \in RecordIndexes : j <= n } }

\* a road leads both ways: the directed hops of the file
Edges ==
    { << map_file[n].place_from, map_file[n].place_to, map_file[n].cost >> : n \in RecordIndexes }
        \cup { << map_file[n].place_to, map_file[n].place_from, map_file[n].cost >> : n \in RecordIndexes }

AllCostsNonNegative == \A n \in RecordIndexes : map_file[n].cost >= 0

AllCostsPositive == \A n \in RecordIndexes : map_file[n].cost > 0

\* the costs of the paths that go on from `at`, reached at cost `acc`, to
\* `target` through places not yet visited; a path's cost is summed hop by hop
RECURSIVE PathCosts(_, _, _, _)
PathCosts(at, acc, target, visited) ==
    IF at = target THEN {acc}
    ELSE UNION { PathCosts(e[2], FloatAdd(acc, e[3]), target, visited \cup {e[2]}) :
                 e \in { h \in Edges : h[1] = at /\ h[2] \notin visited } }

CostsFromStart(target) == PathCosts(start_place, 0, target, {start_place})

Connected(target) == CostsFromStart(target) # {}

MinOf(S) == CHOOSE m \in S : \A x \in S : m <= x

\* the search from start_place has returned to main
SearchCompleted == pc \in {"report", "done"}

(***************************************************************************)
(* C1: when the search from the start has completed, every key of the     *)
(* distance dict is a place some path from the start leads to, and its    *)
(* entry is the least cost of all those paths.                             *)
(***************************************************************************)
C1_Optimal ==
    (SearchCompleted /\ AllCostsNonNegative) =>
        \A k \in DOMAIN distances :
            /\ Connected(k)
            /\ distances[k] = MinOf(CostsFromStart(k))

\* A-C direct costs 3 and is tried first, by way of B it costs 2: C ends at 2
C1_Witness ==
    /\ pc = "done"
    /\ map_file = << Record("A", "C", 3), Record("A", "B", 1), Record("B", "C", 1) >>
    /\ start_place = "A"
    /\ distances["C"] = 2

(***************************************************************************)
(* C2: with costs that are all non-negative (zero-cost roads and          *)
(* self-loops included) the recursion of dfs ends: the call stack never    *)
(* outgrows the interpreter's limit.                                       *)
(***************************************************************************)
C2_Terminates == AllCostsNonNegative => pc # "RecursionError"

(***************************************************************************)
(* C3: a destination that is a key of the roads but that no path joins to *)
(* the start has no entry once the search has completed, and main prints  *)
(* the "can't get from" message and ends with status 0.                    *)
(***************************************************************************)
Unreachable == destination \in Mentioned(Len(map_file)) /\ ~Connected(destination)

C3_Disconnected ==
    /\ (SearchCompleted /\ Unreachable) => destination \notin DOMAIN distances
    /\ (pc = "done" /\ Unreachable) => (printed = "cant_get" /\ exit_status = 0)

C3_Witness ==
    /\ pc = "done"
    /\ Unreachable
    /\ start_place \in Mentioned(Len(map_file))
    /\ DOMAIN distances # {start_place}

(***************************************************************************)
(* C4: a label that is not a key of the roads is reported as not on the   *)
(* map and the process exits with status 1 before dfs is called and       *)
(* before the distance dict exists; the start is tested first, so when    *)
(* both are missing only the start is reported.  With both labels keys     *)
(* there is no such exit.                                                  *)
(***************************************************************************)
StartOnFile == start_place \in Mentioned(Len(map_file))

DestinationOnFile == destination \in Mentioned(Len(map_file))

ChecksDone == pc \notin {"read", "check_start", "check_dest"}

C4_NotOnMap ==
    /\ (ChecksDone /\ ~StartOnFile) =>
           (pc = "exited" /\ printed = "start_not_on_map")
    /\ (ChecksDone /\ StartOnFile /\ ~DestinationOnFile) =>
           (pc = "exited" /\ printed = "destination_not_on_map")
    /\ pc = "exited" =>
           (exit_status = 1 /\ ~created /\ stack = << >> /\ run = 0)
    /\ (StartOnFile /\ DestinationOnFile) =>
           (pc # "exited" /\ printed \notin {"start_not_on_map", "destination_not_on_map"})

\* both labels are missing: only the start is reported
C4_Witness ==
    /\ pc = "exited"
    /\ RecordIndexes # {}
    /\ ~StartOnFile
    /\ ~DestinationOnFile

(***************************************************************************)
(* C5: after n lines, the keys of the network are the places the records  *)
(* among them name, and each place's list holds, record by record in      *)
(* input order, (to, cost) for a record from that place and (from, cost)  *)
(* for a record to it, once per occurrence; comment and blank lines add   *)
(* nothing.                                                                *)
(***************************************************************************)
RECURSIVE HopsFor(_, _)
HopsFor(place, n) ==
    IF n = 0 THEN << >>
    ELSE LET line == map_file[n]
             outward == IF line.kind = "record" /\ line.place_from = place
                        THEN << << line.place_to, line.cost >> >> ELSE << >>
             back == IF line.kind = "record" /\ line.place_to = place
                     THEN << << line.place_from, line.cost >> >> ELSE << >>
         IN  HopsFor(place, n - 1) \o outward \o back

C5_Loaded ==
    /\ DOMAIN roads = Mentioned(lineno)
    /\ \A place \in DOMAIN roads : roads[place] = HopsFor(place, lineno)

\* a record read twice with a comment between, and a self-loop
C5_Witness ==
    /\ pc = "check_start"
    /\ \E n \in 1..Len(map_file) : map_file[n].kind \in {"comment", "blank"}
    /\ \E m, n \in RecordIndexes : m < n /\ map_file[m] = map_file[n]
    /\ \E place \in DOMAIN roads : Len(roads[place]) = 4

(***************************************************************************)
(* C6: in one search run no step of dfs removes an entry of the distance  *)
(* dict or raises it: a write either inserts an entry for a place that    *)
(* had none or puts a strictly smaller value in the place of an entry.    *)
(***************************************************************************)
C6_Step ==
    (pc = "dfs" /\ run' = run) =>
        /\ \A place \in DOMAIN distances :
               place \in DOMAIN distances' /\ distances'[place] <= distances[place]
        /\ distances' # distances =>
               \E place \in DOMAIN distances' :
                   /\ \A other \in DOMAIN distances' \ {place} :
                          other \in DOMAIN distances /\ distances'[other] = distances[other]
                   /\ \/ place \notin DOMAIN distances
                      \/ distances'[place] < distances[place]

C6_NeverRaised == [][C6_Step]_vars

\* an entry has just been lowered
C6_Witness ==
    /\ pc = "dfs"
    /\ Top.at = "l102"
    /\ ~Top.first_visit
    /\ distances[Top.place] = Top.dist_so_far

(***************************************************************************)
(* C7: in the network read_distances returns every place in a list of     *)
(* hops is itself a key, so no activation of dfs is at a place that is    *)
(* not a key and the lookup roads[place] never fails.                      *)
(***************************************************************************)
C7_Closed ==
    /\ \A place \in DOMAIN roads :
           \A n \in 1..Len(roads[place]) : roads[place][n][1] \in DOMAIN roads
    /\ \A n \in 1..Len(stack) : stack[n].place \in DOMAIN roads
    /\ pc # "KeyError"

\* an inner activation has looked up the hops of the place it was called at
C7_Witness ==
    /\ pc = "dfs"
    /\ Len(stack) >= 2
    /\ Top.at = "l96"
    /\ Top.hops = roads[Top.place]
    /\ Top.place # start_place

(***************************************************************************)
(* C8: no step of dfs changes the roads, and the same query asked again    *)
(* with a fresh distance dict ends with the same distance dict and the     *)
(* same message.                                                           *)
(***************************************************************************)
C8_Frame == pc = "dfs" => roads' = roads

C8_SameAgain ==
    (pc = "done" /\ run = 2) =>
        (distances = first_result.distances /\ printed = first_result.printed)

C8_Idempotent == [][C8_Frame]_vars /\ [](C8_SameAgain)

\* the second run has ended, after a search that went beyond the start
C8_Witness ==
    /\ pc = "done"
    /\ run = 2
    /\ printed = "distance"
    /\ Cardinality(DOMAIN distances) = 3

(***************************************************************************)
(* C9: an activation of dfs that visits its place for the first time      *)
(* takes the equal-distance branch and not the strictly-shorter branch:   *)
(* it calls dfs once for each hop of its place.                            *)
(* As first stated: such an activation takes both branches and explores   *)
(* the hops of its place twice.                                            *)
(***************************************************************************)
Returning(frame) == frame.at = "l106"

C9_BothBranches ==
    \A n \in 1..Len(stack) :
        (Returning(stack[n]) /\ stack[n].first_visit) =>
            /\ stack[n].same_path
            /\ stack[n].shorter
            /\ stack[n].calls = 2 * Len(roads[stack[n].place])

C9_OneBranch ==
    \A n \in 1..Len(stack) :
        (Returning(stack[n]) /\ stack[n].first_visit) =>
            /\ stack[n].same_path
            /\ ~stack[n].shorter
            /\ stack[n].calls = Len(roads[stack[n].place])

C9_Witness ==
    /\ pc = "dfs"
    /\ Returning(Top)
    /\ Top.first_visit
    /\ Top.calls >= 2

(***************************************************************************)
(* C10: with costs that are all strictly positive the recursion of dfs    *)
(* ends: the call stack never outgrows the interpreter's limit.            *)
(***************************************************************************)
C10_TerminatesPositive == AllCostsPositive => pc # "RecursionError"

====
